---- MODULE Spec2Model ----
(***************************************************************************)
(* The periodic watch session of cmd/search (periodicWatcher): one         *)
(* background task (run) racing an interval timer against a done signal,   *)
(* any number of Stop() callers, and one consumer reading ResultChan().    *)
(* Every step is one statement of the Go source; channels, the mutex and   *)
(* the runtime's panics on misuse of a closed channel are modelled by what *)
(* the Go runtime does.                                                    *)
(***************************************************************************)
EXTENDS Integers, Sequences, FiniteSets, TLC

\* Number of goroutines that may call Stop() on the session.
NumStoppers == 2

\* Variant of ChanCap: make(chan watch.Event), an unbuffered channel.
ChanCapUnbuffered == 0

\* make(chan watch.Event, 100)
ChanCap == 100

\* The goroutine started by `go pw.run()`; the Stop() callers are 1..NumStoppers.
RunProc == 0
Stoppers == 1..NumStoppers
Procs == {RunProc} \cup Stoppers

VARIABLES
    ch,          \* w.ch: the events buffered in the channel, oldest first
    chClosed,    \* w.ch has been closed
    doneClosed,  \* w.done has been closed
    closed,      \* w.closed
    locked,      \* w.lock is held
    timer,       \* the channel of time.After: "unset", "armed", "fired", "read"
    pc,          \* the statement each goroutine is at
    got,         \* the events the consumer has received from ResultChan()
    eof,         \* the consumer has observed the channel closed
    panic,       \* the runtime panic that ended the program, or "none"
    branch,      \* the select case run took: "none", "timer", "done"
    sent,        \* history: number of sends on w.ch that completed
    chClosers,   \* history: the goroutines that executed close(w.ch), in order
    doneCloses,  \* history: number of close(w.done) executed
    drained,     \* history: number of events discarded by Stop()'s drain loop
    earlyStop    \* history: a Stop() call closed w.done before the timer fired

\* The rest of the program, which the steps of one session never touch: the
\* sessions created by ListWatcher.Watch.
VARIABLES
    heap,        \* the channels made so far: heap[id] = [buf, closed]
    sess,        \* the periodicWatcher objects created by Watch, in order of creation
    spawned,     \* history: number of `go pw.run()` executed
    watchRet,    \* what the last Watch call returned: [handle, err]
    watchPanic   \* a goroutine of some session panicked

watchVars == <<heap, sess, spawned, watchRet, watchPanic>>

\* The job cache, ListWatcher.List and the Lister.
VARIABLES
    cache,       \* the indexer's contents: job id -> Job
    indexerErr,  \* the error the indexer's lookups fail with at present, or "nil"
    ret,         \* what the last call of ListWatcher.List or of the Lister returned
    fetches      \* history: the responses of the ListJobs calls the last call made

cacheVars == <<cache, indexerErr, ret, fetches>>

\* One request served by handleIndex.
VARIABLES
    oMaxAge,         \* o.MaxAge, the operator's maximum age, in hours
    ipc,             \* where handleIndex is
    index,           \* the Index value the handler builds
    contextOptions,  \* the options of the context dropdown
    maxAgeOptions,   \* the options of the maximum age dropdown
    out,             \* what has been written to the http.ResponseWriter
    lastParam        \* history: the form value the step just taken parsed

indexVars == <<oMaxAge, ipc, index, contextOptions, maxAgeOptions, out, lastParam>>

restVars == <<watchVars, cacheVars, indexVars>>

\* The state of the one session of the single-session specification.
sessionVars == <<ch, chClosed, doneClosed, closed, locked, timer, pc, got, eof, panic,
                 branch, sent, chClosers, doneCloses, drained, earlyStop>>

\* What ListWatcher.Watch and the sessions it creates never touch.
outsideWatch == <<sessionVars, cacheVars, indexVars>>

\* What ListWatcher.List, the Lister and the cache never touch.
outsideCache == <<sessionVars, watchVars, indexVars>>

\* What handleIndex never touches.
outsideIndex == <<sessionVars, watchVars, cacheVars>>

vars == <<sessionVars, restVars>>

\* The nil error and the nil watch handle.
Nil == "nil"
NoHandle == {}

\* No Watch call has been made.
WatchIdle ==
    /\ heap = <<>>
    /\ sess = <<>>
    /\ spawned = 0
    /\ watchRet = [handle |-> NoHandle, err |-> Nil]
    /\ watchPanic = FALSE

\* A pointer that is nil, or that points to x.
None == <<>>
Some(x) == <<x>>

\* An empty cache, no indexer fault, and no call made yet.
CacheIdle ==
    /\ cache = <<>>
    /\ indexerErr = Nil
    /\ ret = [op |-> "none"]
    /\ fetches = <<>>

\* index := &Index{Context: 2, MaxAge: 7 * 24 * time.Hour}, durations in hours
DefaultContext == 2
DefaultMaxAge == 168

NewIndex == [Search |-> "", Context |-> DefaultContext, SearchType |-> "", MaxAge |-> DefaultMaxAge]

\* Nothing written to the response yet.
NoResponse == [status |-> 0, error |-> "", page |-> FALSE, rendered |-> "none"]

\* The step just taken parsed no form value.
NoParam == [name |-> "", value |-> ""]

\* No request is being served.
HandlerIdle ==
    /\ ipc = "idle"
    /\ index = NewIndex
    /\ contextOptions = <<>>
    /\ maxAgeOptions = <<>>
    /\ out = NoResponse
    /\ lastParam = NoParam

\* No request is being served, and the operator set no maximum age.
IndexIdle == oMaxAge = 0 /\ HandlerIdle

RestIdle == WatchIdle /\ CacheIdle /\ IndexIdle

\* watch.Event{Type: watch.Error, Object: &errors.NewResourceExpired(...).ErrStatus}
ExpiredEvent == [Type |-> "ERROR", Reason |-> "Expired"]

chanVars == <<ch, chClosed, sent, chClosers>>
stopVars == <<doneClosed, closed, locked, doneCloses, earlyStop>>
readerVars == <<got, eof>>

\* newPeriodicWatcher: fresh channels, zero-valued lock and flag, run started.
SessionInit ==
    /\ ch = <<>>
    /\ chClosed = FALSE
    /\ doneClosed = FALSE
    /\ closed = FALSE
    /\ locked = FALSE
    /\ timer = "unset"
    /\ pc = [p \in Procs |-> IF p = RunProc THEN "start" ELSE "idle"]
    /\ got = <<>>
    /\ eof = FALSE
    /\ panic = "none"
    /\ branch = "none"
    /\ sent = 0
    /\ chClosers = <<>>
    /\ doneCloses = 0
    /\ drained = 0
    /\ earlyStop = FALSE

Init == SessionInit /\ RestIdle

\* A goroutine can take a step only while the program has not panicked. pc[p] names
\* the statement p executes next; run at "select" has not yet committed to a case,
\* and Go picks among the cases that are ready at random.
Alive(p, at) == panic = "none" /\ pc[p] = at

Goto(p, to) == pc' = [pc EXCEPT ![p] = to]

----
\* run, line 470: stop := time.After(w.interval)
RunStartTimer ==
    /\ Alive(RunProc, "start")
    /\ timer' = "armed"
    /\ Goto(RunProc, "select")
    /\ UNCHANGED <<restVars, chanVars, stopVars, readerVars, panic, branch, drained>>

\* The runtime timer delivers on the channel of time.After once the interval elapsed.
TimerFires ==
    /\ panic = "none"
    /\ timer = "armed"
    /\ timer' = "fired"
    /\ UNCHANGED <<restVars, chanVars, stopVars, readerVars, pc, panic, branch, drained>>

\* Variant of RunSelectTimer: the expiry branch forgets to send the event.
RunSelectTimerSilent ==
    /\ Alive(RunProc, "select")
    /\ timer = "fired"
    /\ timer' = "read"
    /\ branch' = "timer"
    /\ Goto(RunProc, "lock")
    /\ UNCHANGED <<restVars, chanVars, stopVars, readerVars, panic, drained>>

\* Variant of RunSelectTimer: close(w.ch) is written at the top of the expiry
\* branch instead of being deferred, so the send that follows hits a closed channel.
RunSelectTimerClosesFirst ==
    /\ Alive(RunProc, "select")
    /\ timer = "fired"
    /\ timer' = "read"
    /\ branch' = "timer"
    /\ chClosed' = TRUE
    /\ chClosers' = Append(chClosers, RunProc)
    /\ Goto(RunProc, "send")
    /\ UNCHANGED <<restVars, ch, sent, stopVars, readerVars, panic, drained>>

\* run, lines 471-472: the select takes `case <-stop`.
RunSelectTimer ==
    /\ Alive(RunProc, "select")
    /\ timer = "fired"
    /\ timer' = "read"
    /\ branch' = "timer"
    /\ Goto(RunProc, "send")
    /\ UNCHANGED <<restVars, chanVars, stopVars, readerVars, panic, drained>>

\* Variant of RunSelectDone: the stop branch emits a terminal event as well.
RunSelectDoneSends ==
    /\ Alive(RunProc, "select")
    /\ doneClosed
    /\ branch' = "done"
    /\ Goto(RunProc, "send")
    /\ UNCHANGED <<restVars, chanVars, stopVars, readerVars, timer, panic, drained>>

\* run, line 476: the select takes `case <-w.done`; the deferred close is next.
RunSelectDone ==
    /\ Alive(RunProc, "select")
    /\ doneClosed
    /\ branch' = "done"
    /\ Goto(RunProc, "closech")
    /\ UNCHANGED <<restVars, chanVars, stopVars, readerVars, timer, panic, drained>>

\* Variant of AfterSend: run loops back to its select instead of stopping.
AfterSendLoop == "select"

\* The statement after the expiry send (line 475: w.stop()).
AfterSend == "lock"

\* run, line 474: w.ch <- watch.Event{...}. A send on a closed channel panics; a
\* send on a full buffer blocks.
RunSend ==
    /\ Alive(RunProc, "send")
    /\ IF chClosed
         THEN /\ panic' = "send on closed channel"
              /\ UNCHANGED <<ch, sent, pc>>
         ELSE /\ Len(ch) < ChanCap
              /\ ch' = Append(ch, ExpiredEvent)
              /\ sent' = sent + 1
              /\ Goto(RunProc, AfterSend)
              /\ UNCHANGED panic
    /\ UNCHANGED <<restVars, chClosed, chClosers, stopVars, readerVars, timer, branch, drained>>

\* Variant of RunCloseCh: run returns without closing the event channel.
RunExitNoClose ==
    /\ Alive(RunProc, "closech")
    /\ Goto(RunProc, "exited")
    /\ UNCHANGED <<restVars, chanVars, stopVars, readerVars, timer, panic, branch, drained>>

\* run, line 467: the deferred close(w.ch). Closing a closed channel panics.
RunCloseCh ==
    /\ Alive(RunProc, "closech")
    /\ IF chClosed
         THEN /\ panic' = "close of closed channel"
              /\ UNCHANGED <<chClosed, pc>>
         ELSE /\ chClosed' = TRUE
              /\ Goto(RunProc, "exited")
              /\ UNCHANGED panic
    /\ chClosers' = Append(chClosers, RunProc)
    /\ UNCHANGED <<restVars, ch, sent, stopVars, readerVars, timer, branch, drained>>

----
\* Stop, lines 480 and 486: a caller enters Stop() and calls w.stop().
CallStop(p) ==
    /\ p \in Stoppers
    /\ Alive(p, "idle")
    /\ Goto(p, "lock")
    /\ UNCHANGED <<restVars, chanVars, stopVars, readerVars, timer, panic, branch, drained>>

\* stop, line 492: w.lock.Lock()
StopLock(p) ==
    /\ Alive(p, "lock")
    /\ ~locked
    /\ locked' = TRUE
    /\ Goto(p, "check")
    /\ UNCHANGED <<restVars, chanVars, doneClosed, closed, doneCloses, earlyStop, readerVars,
                   timer, panic, branch, drained>>

\* Variant of ShouldClose: stop() closes the done signal whatever the flag says.
AlwaysClose(flag) == TRUE

\* stop, line 494: if !w.closed
ShouldClose(flag) == ~flag

StopCheck(p) ==
    /\ Alive(p, "check")
    /\ Goto(p, IF ShouldClose(closed) THEN "closedone" ELSE "unlock")
    /\ UNCHANGED <<restVars, chanVars, stopVars, readerVars, timer, panic, branch, drained>>

\* Variant of StopCloseDone: stop() closes the event channel along with the done
\* signal.
StopCloseDoneAndCh(p) ==
    /\ Alive(p, "closedone")
    /\ IF doneClosed \/ chClosed
         THEN /\ panic' = "close of closed channel"
              /\ UNCHANGED <<doneClosed, chClosed, pc, earlyStop>>
         ELSE /\ doneClosed' = TRUE
              /\ chClosed' = TRUE
              /\ earlyStop' = (earlyStop \/ (p \in Stoppers /\ timer \in {"unset", "armed"}))
              /\ Goto(p, "setclosed")
              /\ UNCHANGED panic
    /\ doneCloses' = doneCloses + 1
    /\ chClosers' = Append(chClosers, p)
    /\ UNCHANGED <<restVars, ch, sent, closed, locked, readerVars, timer, branch, drained>>

\* stop, line 495: close(w.done). Closing a closed channel panics.
StopCloseDone(p) ==
    /\ Alive(p, "closedone")
    /\ IF doneClosed
         THEN /\ panic' = "close of closed channel"
              /\ UNCHANGED <<doneClosed, pc, earlyStop>>
         ELSE /\ doneClosed' = TRUE
              /\ earlyStop' = (earlyStop \/ (p \in Stoppers /\ timer \in {"unset", "armed"}))
              /\ Goto(p, "setclosed")
              /\ UNCHANGED panic
    /\ doneCloses' = doneCloses + 1
    /\ UNCHANGED <<restVars, chanVars, closed, locked, readerVars, timer, branch, drained>>

\* stop, line 496: w.closed = true
StopSetClosed(p) ==
    /\ Alive(p, "setclosed")
    /\ closed' = TRUE
    /\ Goto(p, "unlock")
    /\ UNCHANGED <<restVars, chanVars, doneClosed, locked, doneCloses, earlyStop, readerVars,
                   timer, panic, branch, drained>>

\* Variant of StopUnlock: stop() returns without releasing the lock.
StopNoUnlock(p) ==
    /\ Alive(p, "unlock")
    /\ Goto(p, IF p = RunProc THEN "closech" ELSE "drain")
    /\ UNCHANGED <<restVars, chanVars, stopVars, readerVars, timer, panic, branch, drained>>

\* stop, line 493: the deferred w.lock.Unlock(); stop() returns to run's deferred
\* close (line 467) or to Stop()'s deferred drain loop (line 483).
StopUnlock(p) ==
    /\ Alive(p, "unlock")
    /\ locked' = FALSE
    /\ Goto(p, IF p = RunProc THEN "closech" ELSE "drain")
    /\ UNCHANGED <<restVars, chanVars, doneClosed, closed, doneCloses, earlyStop, readerVars,
                   timer, panic, branch, drained>>

\* Variant of DrainDone: Stop() returns without draining the channel.
DrainSkipped(buf, isClosed) == TRUE

\* Stop, line 483: `for range w.ch` ends when the channel is closed and empty.
DrainDone(buf, isClosed) == isClosed /\ buf = <<>>

\* Stop, lines 483-484: one iteration of the drain loop: discard a buffered event,
\* or leave the loop and return. It blocks on an open, empty channel.
StopDrain(p) ==
    /\ p \in Stoppers
    /\ Alive(p, "drain")
    /\ IF DrainDone(ch, chClosed)
         THEN /\ Goto(p, "returned")
              /\ UNCHANGED <<ch, drained>>
         ELSE /\ ch # <<>>
              /\ ch' = Tail(ch)
              /\ drained' = drained + 1
              /\ UNCHANGED pc
    /\ UNCHANGED <<restVars, chClosed, sent, chClosers, stopVars, readerVars, timer, panic, branch>>

----
\* ResultChan, lines 500-502: the consumer receives from w.ch: the oldest buffered
\* event, or end-of-channel once the channel is closed and empty; it blocks on an
\* open, empty channel.
ConsumerRead ==
    /\ panic = "none"
    /\ IF ch # <<>>
         THEN /\ got' = Append(got, Head(ch))
              /\ ch' = Tail(ch)
              /\ UNCHANGED eof
         ELSE /\ chClosed
              /\ eof' = TRUE
              /\ UNCHANGED <<got, ch>>
    /\ UNCHANGED <<restVars, chClosed, sent, chClosers, stopVars, timer, pc, panic, branch, drained>>

----
RunStep ==
    \/ RunStartTimer
    \/ RunSelectTimer
    \/ RunSelectDone
    \/ RunSend
    \/ RunCloseCh

StopStep(p) ==
    \/ StopLock(p)
    \/ StopCheck(p)
    \/ StopCloseDone(p)
    \/ StopSetClosed(p)
    \/ StopUnlock(p)

Next ==
    \/ RunStep
    \/ TimerFires
    \/ \E p \in Procs : StopStep(p)
    \/ \E p \in Stoppers : CallStop(p) \/ StopDrain(p)
    \/ ConsumerRead

Spec == Init /\ [][Next]_vars

\* Go schedules every runnable goroutine; whether Stop() is ever called is up to
\* the owner.
FairSpec ==
    /\ Spec
    /\ WF_vars(RunStep)
    /\ \A p \in Procs : WF_vars(StopStep(p))
    /\ \A p \in Stoppers : WF_vars(StopDrain(p))

\* In addition the timer fires once its interval has elapsed.
TimerSpec ==
    /\ FairSpec
    /\ WF_vars(TimerFires)

\* In addition the consumer keeps reading ResultChan().
LiveSpec ==
    /\ TimerSpec
    /\ WF_vars(ConsumerRead)

----
\* Helper predicates used by the properties below.
StopNeverCalled == \A p \in Stoppers : pc[p] = "idle"

RunCanStillSend == pc[RunProc] \in {"start", "select", "send"}

\* A step of the session's own goroutines (run, the timer, the Stop() callers).
SessionStep ==
    \/ RunStep
    \/ TimerFires
    \/ \E p \in Procs : StopStep(p)
    \/ \E p \in Stoppers : StopDrain(p)

----
\* C1: in every interleaving of run, the timer and the Stop() callers, the event
\* channel is closed at most once and exactly once by the time run has exited, only
\* run closes it, and no send is attempted on it after the close (the program never
\* panics on the channel, and run is past its send once the channel is closed).
C1_ChClosedOnceByRun ==
    /\ Len(chClosers) <= 1
    /\ \A i \in 1..Len(chClosers) : chClosers[i] = RunProc
    /\ chClosed <=> (Len(chClosers) = 1)
    /\ pc[RunProc] = "exited" => chClosed
    /\ chClosed => ~RunCanStillSend
    /\ panic = "none"

\* The expiry event was sent, the channel was closed after it, and every Stop()
\* caller has come and gone.
C1_Witness ==
    /\ chClosed
    /\ sent = 1
    /\ chClosers = <<RunProc>>
    /\ \A p \in Stoppers : pc[p] = "returned"

\* C2: if a Stop() call has closed the done signal before the interval timer fired,
\* no event is ever sent on the event channel (the expiry branch is not taken), and
\* once run has exited the channel is closed.
C2_NoEventAfterEarlyStop ==
    earlyStop =>
        /\ sent = 0
        /\ branch # "timer"
        /\ pc[RunProc] = "exited" => chClosed

\* C3: across all stop() invocations of one session, from Stop() callers and from
\* run's expiry branch, close(done) executes at most once and never panics.
C3_DoneClosedAtMostOnce ==
    /\ doneCloses <= 1
    /\ panic # "close of closed channel"
    /\ doneClosed <=> (doneCloses = 1)

\* run took the expiry branch and called stop(), and every Stop() caller called
\* stop() too: NumStoppers + 1 invocations, one close.
C3_Witness ==
    /\ branch = "timer"
    /\ pc[RunProc] = "exited"
    /\ \A p \in Stoppers : pc[p] = "returned"
    /\ doneCloses = 1

\* C4: every Stop() call that was issued eventually returns, and while a Stop()
\* call is in progress some goroutine of the session can always take a step (no
\* deadlock among the Stop() callers and run).
C4_StopReturns ==
    /\ \A p \in Stoppers : (pc[p] # "idle") ~> (pc[p] = "returned")
    /\ []((\E p \in Stoppers : pc[p] \notin {"idle", "returned"}) => ENABLED SessionStep)

\* All Stop() callers have returned after an expiry whose event none of the
\* consumer's reads took: the drain loops did the work.
C4_Witness ==
    /\ \A p \in Stoppers : pc[p] = "returned"
    /\ branch = "timer"
    /\ got = <<>>

\* C5: run sends at most one event on the event channel, and a send is always
\* followed by the closing of the channel.
C5_AtMostOneEventThenClose ==
    /\ [](sent <= 1)
    /\ (sent = 1) ~> chClosed

C5_Witness ==
    /\ sent = 1
    /\ chClosed
    /\ pc[RunProc] = "exited"

\* C6: on a session whose Stop() is never called, the consumer of ResultChan()
\* eventually has received exactly one event, the Error event carrying the
\* resource-expired status, followed by end-of-channel; it never sees anything
\* else, and sees end-of-channel only after that event.
C6_ExpiryWhenNeverStopped ==
    /\ []StopNeverCalled =>
           <>(sent = 1 /\ chClosed /\ got = <<ExpiredEvent>> /\ eof)
    /\ [](StopNeverCalled =>
           /\ got \in {<<>>, <<ExpiredEvent>>}
           /\ sent <= 1
           /\ eof => got = <<ExpiredEvent>>
           /\ chClosed => sent = 1)

C6_Witness ==
    /\ StopNeverCalled
    /\ got = <<ExpiredEvent>>
    /\ ExpiredEvent.Type = "ERROR"
    /\ ExpiredEvent.Reason = "Expired"
    /\ eof

\* C7: whenever a Stop() call has returned, the event channel is closed and empty
\* and run has exited: run has no send pending and no close left to do.
C7_StopReturnsAfterClose ==
    \A p \in Stoppers :
        pc[p] = "returned" =>
            /\ chClosed
            /\ ch = <<>>
            /\ ~RunCanStillSend
            /\ pc[RunProc] = "exited"

\* A Stop() call that raced the expiry has returned: the event had been sent.
C7_Witness ==
    /\ \E p \in Stoppers : pc[p] = "returned"
    /\ sent = 1

\* C8 as stated: a consumer that has observed the channel closed without having
\* received an event knows the stop branch was taken and no event was sent; one
\* that received an event and then the close knows the expiry branch was taken.
C8_Original ==
    /\ (eof /\ got = <<>>) => (branch = "done" /\ sent = 0)
    /\ (eof /\ got # <<>>) => (branch = "timer" /\ got = <<ExpiredEvent>>)

\* C8 as amended: a consumer that has observed the channel closed without having
\* received an event knows that either the stop branch was taken and no event was
\* sent, or the one expiry event was discarded by the drain loop of a Stop() call;
\* one that received an event and then the close knows the expiry branch was taken
\* and the event is the expiry event.
C8_CloseWithoutEvent ==
    /\ (eof /\ got = <<>>) =>
           \/ branch = "done" /\ sent = 0
           \/ sent = 1 /\ drained = 1
    /\ (eof /\ got # <<>>) =>
           /\ branch = "timer"
           /\ got = <<ExpiredEvent>>
           /\ drained = 0

\* The consumer saw the channel closed with no event although the session expired.
C8_Witness ==
    /\ eof
    /\ got = <<>>
    /\ branch = "timer"
    /\ drained = 1

\* C9 as stated: once run has closed the event channel, every read from
\* ResultChan() yields channel-closed.
C9_Original ==
    [][(chClosed /\ ConsumerRead) => (eof' /\ got' = got)]_vars

\* C9 as amended: once run has closed the event channel, no read from ResultChan()
\* blocks; the channel holds at most the one expiry event sent before the close and
\* nothing is added to it, so reads yield that event if it is still buffered and
\* channel-closed from then on; and a consumer that keeps reading observes
\* channel-closed.
C9_ReadsAfterClose ==
    /\ [](chClosed => (ENABLED ConsumerRead /\ Len(ch) <= 1 /\ Len(ch) + Len(got) + drained = sent))
    /\ [][chClosed => (chClosed' /\ Len(ch') <= Len(ch))]_vars
    /\ [][(eof /\ ConsumerRead) => (eof' /\ got' = got)]_vars
    /\ chClosed ~> (eof /\ ch = <<>>)

\* The channel was closed with the expiry event still buffered; the consumer then
\* read the event and, after it, channel-closed.
C9_Witness ==
    /\ chClosed
    /\ StopNeverCalled
    /\ got = <<ExpiredEvent>>
    /\ eof

\* C10: whichever branch run takes and whether or not Stop() is called, run
\* eventually exits and the event channel is eventually closed, for good.
C10_RunTerminates ==
    <>[](pc[RunProc] = "exited" /\ chClosed)

\* run exited through the stop branch of its select, and the timer has fired too.
C10_Witness ==
    /\ pc[RunProc] = "exited"
    /\ chClosed
    /\ branch = "done"
    /\ timer = "fired"

\* C16: the expiry send never blocks: whenever run is at its send the buffered event
\* channel has free space, so that even if no consumer ever reads ResultChan() and
\* Stop() is never called, run sends, closes the channel and exits, leaving the
\* expiry event buffered.
C16_ExpirySendNeverBlocks ==
    /\ [](pc[RunProc] = "send" => (Len(ch) < ChanCap /\ ~chClosed /\ ENABLED RunSend))
    /\ [](StopNeverCalled /\ got = <<>> /\ ~eof) =>
           <>(pc[RunProc] = "exited" /\ chClosed /\ ch = <<ExpiredEvent>>)

\* Nobody read and nobody stopped, and run is gone with the event left in the buffer.
C16_Witness ==
    /\ StopNeverCalled
    /\ got = <<>>
    /\ ~eof
    /\ pc[RunProc] = "exited"
    /\ chClosed
    /\ ch = <<ExpiredEvent>>

----
(***************************************************************************)
(* ListWatcher.Watch and the sessions it creates. Channels live in a heap   *)
(* and a session holds the ids of its two channels, so that what one        *)
(* session's goroutines do to another session is visible. stop() is one     *)
(* step here: its body runs under w.lock, and its interleavings are those   *)
(* of the single-session specification above.                               *)
(***************************************************************************)

\* Number of successful Watch calls.
MaxWatches == 2

\* Resource-version tokens a caller may pass in options.ResourceVersion.
Tokens == {"", "null", "2019-06-01T12:00:00Z", "2019-06-01", "1559390400", "yesterday"}

\* The tokens time.Parse(time.RFC3339, tok) accepts, with the time they denote.
RFC3339Time == [tok \in {"2019-06-01T12:00:00Z"} |-> "2019-06-01 12:00:00 +0000 UTC"]

ZeroTime == "0001-01-01 00:00:00 +0000 UTC"

\* rv.UnmarshalQueryParameter(tok), line 436: the empty token and "null" give the
\* zero time, an RFC 3339 token gives its time, anything else is an error.
UnmarshalQueryParameter(tok) ==
    IF tok = "" \/ tok = "null"
      THEN [rv |-> ZeroTime, err |-> Nil]
      ELSE IF tok \in DOMAIN RFC3339Time
             THEN [rv |-> RFC3339Time[tok], err |-> Nil]
             ELSE [rv |-> ZeroTime, err |-> "parsing time: " \o tok]

Sessions == DOMAIN sess

\* make(chan ...), lines 458-459: a fresh channel is the next id of the heap.
NewChannel == [buf |-> <<>>, closed |-> FALSE]

\* Variant of MakeDone: the done signal is made once and shared by all sessions.
SharedDone(h) == 2

MakeCh(h) == Len(h) + 1
MakeDone(h) == Len(h) + 2

\* newPeriodicWatcher, lines 453-463: the new object, and `go pw.run()`.
NewPeriodicWatcher(rv) ==
    /\ heap' = heap \o <<NewChannel, NewChannel>>
    /\ sess' = Append(sess, [ch |-> MakeCh(heap), done |-> MakeDone(heap), closed |-> FALSE,
                             rv |-> rv, timer |-> "unset", run |-> "start", stop |-> "idle"])
    /\ spawned' = spawned + 1

\* Variant of Watch: the session is created before the token is validated.
WatchCreatesFirst(tok) ==
    /\ ~watchPanic
    /\ Len(sess) < MaxWatches
    /\ LET parsed == UnmarshalQueryParameter(tok) IN
         /\ NewPeriodicWatcher(parsed.rv)
         /\ watchRet' = IF parsed.err # Nil
                          THEN [handle |-> NoHandle, err |-> parsed.err]
                          ELSE [handle |-> {Len(sess) + 1}, err |-> Nil]
    /\ UNCHANGED <<watchPanic, outsideWatch>>

\* ListWatcher.Watch, lines 434-440.
Watch(tok) ==
    /\ ~watchPanic
    /\ LET parsed == UnmarshalQueryParameter(tok) IN
         IF parsed.err # Nil
           THEN /\ watchRet' = [handle |-> NoHandle, err |-> parsed.err]
                /\ UNCHANGED <<heap, sess, spawned>>
           ELSE /\ Len(sess) < MaxWatches
                /\ NewPeriodicWatcher(parsed.rv)
                /\ watchRet' = [handle |-> {Len(sess) + 1}, err |-> Nil]
    /\ UNCHANGED <<watchPanic, outsideWatch>>

\* A goroutine of session i is at statement `at` of run, and nothing has panicked.
RunAt(i, at) == i \in Sessions /\ ~watchPanic /\ sess[i].run = at

\* The owner of session i is at statement `at` of Stop().
StopAt(i, at) == i \in Sessions /\ ~watchPanic /\ sess[i].stop = at

\* run, line 470: stop := time.After(w.interval)
SessRunStartTimer(i) ==
    /\ RunAt(i, "start")
    /\ sess' = [sess EXCEPT ![i].timer = "armed", ![i].run = "select"]
    /\ UNCHANGED <<heap, spawned, watchRet, watchPanic, outsideWatch>>

\* The timer of session i delivers on the channel of time.After.
SessTimerFires(i) ==
    /\ i \in Sessions
    /\ ~watchPanic
    /\ sess[i].timer = "armed"
    /\ sess' = [sess EXCEPT ![i].timer = "fired"]
    /\ UNCHANGED <<heap, spawned, watchRet, watchPanic, outsideWatch>>

\* run, lines 471-472: the select takes `case <-stop`.
SessRunSelectTimer(i) ==
    /\ RunAt(i, "select")
    /\ sess[i].timer = "fired"
    /\ sess' = [sess EXCEPT ![i].timer = "read", ![i].run = "send"]
    /\ UNCHANGED <<heap, spawned, watchRet, watchPanic, outsideWatch>>

\* run, line 476: the select takes `case <-w.done`.
SessRunSelectDone(i) ==
    /\ RunAt(i, "select")
    /\ heap[sess[i].done].closed
    /\ sess' = [sess EXCEPT ![i].run = "closech"]
    /\ UNCHANGED <<heap, spawned, watchRet, watchPanic, outsideWatch>>

\* run, line 474: the send of the expiry event on w.ch.
SessRunSend(i) ==
    /\ RunAt(i, "send")
    /\ IF heap[sess[i].ch].closed
         THEN /\ watchPanic' = TRUE
              /\ UNCHANGED <<heap, sess>>
         ELSE /\ Len(heap[sess[i].ch].buf) < ChanCap
              /\ heap' = [heap EXCEPT ![sess[i].ch].buf = Append(@, ExpiredEvent)]
              /\ sess' = [sess EXCEPT ![i].run = "stop"]
              /\ UNCHANGED watchPanic
    /\ UNCHANGED <<spawned, watchRet, outsideWatch>>

\* stop, lines 490-498, called by session i's goroutine which then goes on at
\* statement `to`: under the lock, close(w.done) and set w.closed unless w.closed.
\* Closing a closed channel panics.
StopBody(i, field, to) ==
    IF sess[i].closed
      THEN /\ sess' = [sess EXCEPT ![i][field] = to]
           /\ UNCHANGED <<heap, watchPanic>>
      ELSE IF heap[sess[i].done].closed
             THEN /\ watchPanic' = TRUE
                  /\ UNCHANGED <<heap, sess>>
             ELSE /\ heap' = [heap EXCEPT ![sess[i].done].closed = TRUE]
                  /\ sess' = [sess EXCEPT ![i].closed = TRUE, ![i][field] = to]
                  /\ UNCHANGED watchPanic

\* run, line 475: w.stop()
SessRunStop(i) ==
    /\ RunAt(i, "stop")
    /\ StopBody(i, "run", "closech")
    /\ UNCHANGED <<spawned, watchRet, outsideWatch>>

\* run, line 467: the deferred close(w.ch).
SessRunCloseCh(i) ==
    /\ RunAt(i, "closech")
    /\ IF heap[sess[i].ch].closed
         THEN /\ watchPanic' = TRUE
              /\ UNCHANGED <<heap, sess>>
         ELSE /\ heap' = [heap EXCEPT ![sess[i].ch].closed = TRUE]
              /\ sess' = [sess EXCEPT ![i].run = "exited"]
              /\ UNCHANGED watchPanic
    /\ UNCHANGED <<spawned, watchRet, outsideWatch>>

\* Stop, line 486: the owner of session i calls Stop(), which calls w.stop().
SessStop(i) ==
    /\ StopAt(i, "idle")
    /\ StopBody(i, "stop", "drain")
    /\ UNCHANGED <<spawned, watchRet, outsideWatch>>

\* Stop, lines 481-485: one iteration of the deferred drain loop.
SessDrain(i) ==
    /\ StopAt(i, "drain")
    /\ IF DrainDone(heap[sess[i].ch].buf, heap[sess[i].ch].closed)
         THEN /\ sess' = [sess EXCEPT ![i].stop = "returned"]
              /\ UNCHANGED heap
         ELSE /\ heap[sess[i].ch].buf # <<>>
              /\ heap' = [heap EXCEPT ![sess[i].ch].buf = Tail(@)]
              /\ UNCHANGED sess
    /\ UNCHANGED <<spawned, watchRet, watchPanic, outsideWatch>>

\* ResultChan, lines 500-502: the consumer of session i receives a buffered event.
SessRecv(i) ==
    /\ i \in Sessions
    /\ ~watchPanic
    /\ heap[sess[i].ch].buf # <<>>
    /\ heap' = [heap EXCEPT ![sess[i].ch].buf = Tail(@)]
    /\ UNCHANGED <<sess, spawned, watchRet, watchPanic, outsideWatch>>

\* Any step of session i: of its run, its timer, its owner or its consumer.
SessStep(i) ==
    \/ SessRunStartTimer(i)
    \/ SessTimerFires(i)
    \/ SessRunSelectTimer(i)
    \/ SessRunSelectDone(i)
    \/ SessRunSend(i)
    \/ SessRunStop(i)
    \/ SessRunCloseCh(i)
    \/ SessStop(i)
    \/ SessDrain(i)
    \/ SessRecv(i)

WatchInit == SessionInit /\ RestIdle

WatchNext ==
    \/ \E tok \in Tokens : Watch(tok)
    \/ \E i \in 1..MaxWatches : SessStep(i)

WatchSpec == WatchInit /\ [][WatchNext]_vars

----
\* Everything of session i that a caller or a consumer can observe: the object's
\* fields and the state of its two channels.
ViewOf(ss, hp, i) == [obj |-> ss[i], ch |-> hp[ss[i].ch], done |-> hp[ss[i].done]]

SessionView(i) == ViewOf(sess, heap, i)

\* C11: a Watch call whose resource-version token does not parse returns the parse
\* error and no watch handle, and creates no session, no channel and no background
\* task: the sessions, the channels and the number of started tasks are unchanged.
C11_BadTokenCreatesNothing ==
    [][\A tok \in Tokens :
          (Watch(tok) /\ UnmarshalQueryParameter(tok).err # Nil) =>
              /\ watchRet'.err = UnmarshalQueryParameter(tok).err
              /\ watchRet'.err # Nil
              /\ watchRet'.handle = NoHandle
              /\ UNCHANGED <<heap, sess, spawned>>]_vars

\* A Watch call failed while a session created by an earlier call was running.
C11_Witness ==
    /\ watchRet.err # Nil
    /\ watchRet.handle = NoHandle
    /\ Len(sess) = 1
    /\ spawned = 1
    /\ sess[1].run = "select"

\* C12: every successful Watch call creates one fresh session, with two channels of
\* its own, open and empty, and a false closed flag, starts exactly one background
\* task and returns the session as the handle; no two sessions share a channel; and
\* a step of one session (its run, timer, Stop() or consumer) or a Watch call
\* changes nothing of any other session.
C12_SessionsIndependent ==
    /\ [](/\ spawned = Len(sess)
          /\ ~watchPanic
          /\ \A i \in Sessions :
                /\ sess[i].ch \in DOMAIN heap
                /\ sess[i].done \in DOMAIN heap
                /\ sess[i].ch # sess[i].done
          /\ \A i, j \in Sessions :
                i # j => {sess[i].ch, sess[i].done} \cap {sess[j].ch, sess[j].done} = {})
    /\ [][\A tok \in Tokens :
            (Watch(tok) /\ UnmarshalQueryParameter(tok).err = Nil) =>
                LET n == Len(sess) + 1 IN
                  /\ Len(sess') = n
                  /\ spawned' = spawned + 1
                  /\ watchRet' = [handle |-> {n}, err |-> Nil]
                  /\ ViewOf(sess', heap', n).ch = NewChannel
                  /\ ViewOf(sess', heap', n).done = NewChannel
                  /\ ViewOf(sess', heap', n).obj.closed = FALSE
                  /\ ViewOf(sess', heap', n).obj.run = "start"
                  /\ ViewOf(sess', heap', n).obj.rv = UnmarshalQueryParameter(tok).rv
                  /\ \A i \in Sessions : SessionView(i)' = SessionView(i)]_vars
    /\ [][\A i \in Sessions : \A j \in Sessions \ {i} :
            SessStep(j) => SessionView(i)' = SessionView(i)]_vars

\* Session 1 was stopped before its timer fired and its Stop() has returned, while
\* session 2 expired by itself and still holds its expiry event.
C12_Witness ==
    /\ Len(sess) = 2
    /\ sess[1].stop = "returned"
    /\ sess[1].timer = "armed"
    /\ heap[sess[1].ch] = [buf |-> <<>>, closed |-> TRUE]
    /\ sess[2].stop = "idle"
    /\ sess[2].run = "exited"
    /\ heap[sess[2].ch] = [buf |-> <<ExpiredEvent>>, closed |-> TRUE]

----
(***************************************************************************)
(* ListWatcher.List, the Lister and the cache they serve. The remote job    *)
(* client and the indexer are collaborators: the client answers a ListJobs  *)
(* call with a collection or an error, the reconciler replaces the cache's  *)
(* contents, and the indexer's lookups may fail.                            *)
(***************************************************************************)

\* Number of distinct job ids.
NumJobs == 2

AllJobIds == <<"a", "b", "c", "d">>
JobIds == {AllJobIds[i] : i \in 1..NumJobs}
JobStates == {"failure", "success"}

\* type Job: its identity, and its state, which is also its label.
Jobs == [id : JobIds, state : JobStates]

\* A collection of jobs: at most one record per id.
Collections == {c \in SUBSET Jobs : \A x, y \in c : x.id = y.id => x = y}

\* The indexer's contents after the reconciler replaced them by collection c.
AsCache(c) == [k \in {j.id : j \in c} |-> CHOOSE j \in c : j.id = k]

\* metav1.ListOptions values a reconciler passes to List.
ListOptions == {[ResourceVersion |-> "", Limit |-> "0"],
                [ResourceVersion |-> "0", Limit |-> "500"],
                [ResourceVersion |-> "2019-06-01T12:00:00Z", Limit |-> "0"]}

\* What lw.client.ListJobs can answer: a collection, or an error (network failure,
\* decode failure, non-success status) with or without a partial collection.
FetchErrors == {"connection refused", "unexpected EOF", "unable to query prow jobs: 500"}

Responses ==
    {[list |-> Some(c), err |-> Nil] : c \in Collections}
        \cup {[list |-> l, err |-> e] : l \in {None, Some({})}, e \in FetchErrors}

\* Variant of LWList: a failed fetch is tried once more before giving up.
LWListRetries(opts) ==
    \E first \in Responses, second \in Responses :
        /\ fetches' = IF first.err # Nil THEN <<first, second>> ELSE <<first>>
        /\ LET r == fetches'[Len(fetches')] IN
             ret' = IF r.err # Nil
                      THEN [op |-> "ListWatcher.List", obj |-> None, err |-> r.err]
                      ELSE [op |-> "ListWatcher.List", obj |-> r.list, err |-> Nil]
        /\ UNCHANGED <<cache, indexerErr, outsideCache>>

\* ListWatcher.List, lines 426-432: one ListJobs call; its error, or its list.
LWList(opts) ==
    \E resp \in Responses :
        /\ fetches' = <<resp>>
        /\ ret' = IF resp.err # Nil
                    THEN [op |-> "ListWatcher.List", obj |-> None, err |-> resp.err]
                    ELSE [op |-> "ListWatcher.List", obj |-> resp.list, err |-> Nil]
        /\ UNCHANGED <<cache, indexerErr, outsideCache>>

\* The reconciler replaces the contents of the cache by a collection it listed.
CacheReplace(c) ==
    /\ cache' = AsCache(c)
    /\ UNCHANGED <<indexerErr, ret, fetches, outsideCache>>

\* The indexer starts or stops failing its lookups.
IndexerFault(e) ==
    /\ indexerErr' = e
    /\ UNCHANGED <<cache, ret, fetches, outsideCache>>

\* s.indexer.GetByKey(id): (obj, exists, err)
GetByKey(id) ==
    IF indexerErr # Nil
      THEN [obj |-> None, exists |-> FALSE, err |-> indexerErr]
      ELSE IF id \in DOMAIN cache
             THEN [obj |-> Some(cache[id]), exists |-> TRUE, err |-> Nil]
             ELSE [obj |-> None, exists |-> FALSE, err |-> Nil]

\* errors.NewNotFound(s.resource, id), with the resource of NewLister (line 386).
NewNotFound(id) == "prow.search.openshift.io \"" \o id \o "\" not found"

\* Variant of Get: the exists result is not looked at.
GetIgnoresExists(id) ==
    /\ LET r == GetByKey(id) IN
         ret' = IF r.err # Nil
                  THEN [op |-> "Get", job |-> None, err |-> r.err]
                  ELSE [op |-> "Get", job |-> r.obj, err |-> Nil]
    /\ fetches' = <<>>
    /\ UNCHANGED <<cache, indexerErr, outsideCache>>

\* Lister.Get, lines 401-410.
Get(id) ==
    /\ LET r == GetByKey(id) IN
         ret' = IF r.err # Nil
                  THEN [op |-> "Get", job |-> None, err |-> r.err]
                  ELSE IF ~r.exists
                         THEN [op |-> "Get", job |-> None, err |-> NewNotFound(id)]
                         ELSE [op |-> "Get", job |-> r.obj, err |-> Nil]
    /\ fetches' = <<>>
    /\ UNCHANGED <<cache, indexerErr, outsideCache>>

\* labels.Selector values: the empty selector, or one requirement state = val.
Selectors == {[empty |-> TRUE, val |-> ""]}
                 \cup {[empty |-> FALSE, val |-> v] : v \in JobStates \cup {"aborted"}}

\* selector.Matches(labels of job)
Matches(sel, job) == job.state = sel.val

\* cache.ListAll calls the append function once for every object of the store if
\* the selector is empty, and else for every object whose labels match.
Listed(sel) == {cache[k] : k \in {x \in DOMAIN cache : sel.empty \/ Matches(sel, cache[x])}}

\* The orders in which the store may enumerate the objects of S.
Orderings(S) ==
    {q \in [1..Cardinality(S) -> S] : \A i, j \in 1..Cardinality(S) : q[i] = q[j] => i = j}

\* Variant of ListerList: the selector is not applied.
ListerListIgnoresSelector(sel) ==
    \E q \in Orderings({cache[k] : k \in DOMAIN cache}) :
        /\ ret' = [op |-> "List", items |-> q, err |-> Nil]
        /\ fetches' = <<>>
        /\ UNCHANGED <<cache, indexerErr, outsideCache>>

\* Lister.List, lines 394-399.
ListerList(sel) ==
    \E q \in Orderings(Listed(sel)) :
        /\ ret' = [op |-> "List", items |-> q, err |-> Nil]
        /\ fetches' = <<>>
        /\ UNCHANGED <<cache, indexerErr, outsideCache>>

CacheInit == SessionInit /\ RestIdle

CacheNext ==
    \/ \E opts \in ListOptions : LWList(opts)
    \/ \E c \in Collections : CacheReplace(c)
    \/ \E e \in {Nil, "indexer closed"} : IndexerFault(e)
    \/ \E id \in JobIds : Get(id)
    \/ \E sel \in Selectors : ListerList(sel)

CacheSpec == CacheInit /\ [][CacheNext]_vars

\* C13: a call of ListWatcher.List makes exactly one ListJobs call whatever the
\* list options are; when that call succeeds List returns its collection with no
\* error, and when it fails List returns no collection and the same error, and
\* does not fetch again.
C13_ListFetchesOnce ==
    [][\A opts \in ListOptions : LWList(opts) =>
          /\ Len(fetches') = 1
          /\ fetches'[1].err = Nil =>
                 ret' = [op |-> "ListWatcher.List", obj |-> fetches'[1].list, err |-> Nil]
          /\ fetches'[1].err # Nil =>
                 ret' = [op |-> "ListWatcher.List", obj |-> None, err |-> fetches'[1].err]
          /\ UNCHANGED cache]_vars

\* A fetch that failed with a partial collection: List returned the error alone.
C13_Witness ==
    /\ ret.op = "ListWatcher.List"
    /\ fetches = <<[list |-> Some({}), err |-> "unexpected EOF"]>>
    /\ ret.obj = None
    /\ ret.err = "unexpected EOF"

\* C14: while the indexer does not fail, Get(id) returns no record and a
\* not-found error if id is not a key of the cache, and exactly the record stored
\* under id if it is; the cache is left as it was. An error of the indexer's
\* lookup is returned as it is, and is not the not-found error.
C14_GetReturnsCachedRecord ==
    [][\A id \in JobIds : Get(id) =>
          /\ cache' = cache
          /\ (indexerErr = Nil /\ id \notin DOMAIN cache) =>
                 (ret'.job = None /\ ret'.err = NewNotFound(id))
          /\ (indexerErr = Nil /\ id \in DOMAIN cache) =>
                 (ret'.job = Some(cache[id]) /\ ret'.err = Nil)
          /\ indexerErr # Nil =>
                 (ret'.job = None /\ ret'.err = indexerErr /\ ret'.err # NewNotFound(id))]_vars

\* Get of an absent id on a cache that holds another job.
C14_Witness ==
    /\ ret.op = "Get"
    /\ ret.err = NewNotFound("a")
    /\ ret.job = None
    /\ indexerErr = Nil
    /\ DOMAIN cache = {"b"}

\* C15: List(selector) returns each cached job that matches the selector exactly
\* once and nothing else, in any order; it returns an empty result and no error
\* when no job matches; the cache is left as it was.
C15_ListReturnsMatching ==
    [][\A sel \in Selectors : ListerList(sel) =>
          LET matching == {j \in Jobs : /\ j.id \in DOMAIN cache
                                        /\ cache[j.id] = j
                                        /\ (sel.empty \/ Matches(sel, j))}
              items == ret'.items
          IN /\ cache' = cache
             /\ ret'.err = Nil
             /\ {items[i] : i \in DOMAIN items} = matching
             /\ Cardinality(DOMAIN items) = Cardinality(matching)
             /\ matching = {} => items = <<>>]_vars

\* A List whose selector matched none of the jobs of a non-empty cache.
C15_Witness ==
    /\ ret.op = "List"
    /\ ret.items = <<>>
    /\ ret.err = Nil
    /\ DOMAIN cache = JobIds
    /\ \A k \in DOMAIN cache : cache[k].state = "success"

----
(***************************************************************************)
(* handleIndex. A parameter that the handler parses is a sequence of       *)
(* one-character strings, so that strconv.Atoi and time.ParseDuration work  *)
(* on the characters as the library does; durations are in hours.          *)
(***************************************************************************)

\* Longest context parameter and longest maxAge parameter of a request.
MaxCtxLen == 3
MaxAgeLen == 3

DigitChars == <<"0", "1", "2", "3", "4", "5", "6", "7", "8", "9">>
Digits == {DigitChars[i] : i \in 1..10}
DigitVal(c) == (CHOOSE i \in 1..10 : DigitChars[i] = c) - 1

\* The sequences over alphabet of length at most n.
StringsUpTo(alphabet, n) == UNION {[1..k -> alphabet] : k \in 0..n}

\* req.FormValue("context"), "maxAge", "type" and "search"; "" when absent.
ContextValues == StringsUpTo(Digits \cup {"-", "+", "x"}, MaxCtxLen)
MaxAgeValues == StringsUpTo({"0", "6", "-", "+", "h"}, MaxAgeLen)
TypeValues == {"", "all", "junit", "build-log", "JUnit", "logs"}
SearchValues == {"", "timeout"}

\* o.MaxAge values an operator configures; 0 is the flag's "no maximum".
OperatorMaxAges == {0, 6, 24, 336}

\* The value of a sequence of digits, most significant first.
RECURSIVE ParseUint(_, _)
ParseUint(s, acc) ==
    IF s = <<>> THEN acc ELSE ParseUint(Tail(s), acc * 10 + DigitVal(Head(s)))

\* strconv.Atoi: an optional sign, then one or more decimal digits.
Atoi(s) ==
    LET signed == s # <<>> /\ s[1] \in {"+", "-"}
        body == IF signed THEN Tail(s) ELSE s
    IN IF body = <<>> \/ \E i \in 1..Len(body) : body[i] \notin Digits
         THEN [num |-> 0, err |-> "invalid syntax"]
         ELSE [num |-> IF signed /\ s[1] = "-" THEN 0 - ParseUint(body, 0)
                                               ELSE ParseUint(body, 0),
               err |-> Nil]

\* strconv.Itoa
RECURSIVE FormatUint(_)
FormatUint(n) ==
    IF n < 10 THEN <<DigitChars[n + 1]>>
              ELSE FormatUint(n \div 10) \o <<DigitChars[(n % 10) + 1]>>

Itoa(n) == IF n < 0 THEN <<"-">> \o FormatUint(0 - n) ELSE FormatUint(n)

\* time.ParseDuration's loop over the groups of s: each group is one or more
\* digits followed by a unit, the unit being every character up to the next
\* digit; "h" is the one unit among the characters of MaxAgeValues.
RECURSIVE ParseGroups(_, _)
ParseGroups(s, d) ==
    IF s = <<>> THEN [d |-> d, err |-> Nil]
    ELSE IF s[1] \notin Digits THEN [d |-> 0, err |-> "invalid duration"]
    ELSE LET firstNonDigit == CHOOSE i \in 1..(Len(s) + 1) :
                                  /\ i = Len(s) + 1 \/ s[i] \notin Digits
                                  /\ \A j \in 1..(i - 1) : s[j] \in Digits
             afterUnit == CHOOSE i \in firstNonDigit..(Len(s) + 1) :
                                  /\ i = Len(s) + 1 \/ s[i] \in Digits
                                  /\ \A j \in firstNonDigit..(i - 1) : s[j] \notin Digits
             v == ParseUint(SubSeq(s, 1, firstNonDigit - 1), 0)
             u == SubSeq(s, firstNonDigit, afterUnit - 1)
         IN IF u = <<>> THEN [d |-> 0, err |-> "missing unit in duration"]
            ELSE IF u # <<"h">> THEN [d |-> 0, err |-> "unknown unit in duration"]
            ELSE ParseGroups(SubSeq(s, afterUnit, Len(s)), d + v)

\* time.ParseDuration: [-+]?([0-9]+[a-z]+)+, or "0" after the sign.
ParseDuration(s) ==
    LET signed == s # <<>> /\ s[1] \in {"+", "-"}
        neg == signed /\ s[1] = "-"
        body == IF signed THEN Tail(s) ELSE s
    IN IF body = <<"0">> THEN [d |-> 0, err |-> Nil]
       ELSE IF body = <<>> THEN [d |-> 0, err |-> "invalid duration"]
       ELSE LET r == ParseGroups(body, 0)
            IN IF r.err # Nil THEN r
               ELSE [d |-> IF neg THEN 0 - r.d ELSE r.d, err |-> Nil]

\* http.Error(w, msg, http.StatusInternalServerError); return
Reject(msg) ==
    /\ ipc' = "done"
    /\ out' = [out EXCEPT !.status = 500, !.error = msg]

\* Lines 36-54: ParseForm, the default Index, and the search parameter.
HandleStart(formOk, search) ==
    /\ ipc \in {"idle", "done"}
    /\ index' = IF formOk /\ search # "" THEN [NewIndex EXCEPT !.Search = search] ELSE NewIndex
    /\ contextOptions' = <<>>
    /\ maxAgeOptions' = <<>>
    /\ IF formOk
         THEN ipc' = "context" /\ out' = NoResponse
         ELSE ipc' = "done" /\ out' = [NoResponse EXCEPT !.status = 500, !.error = "Bad input"]
    /\ lastParam' = NoParam
    /\ UNCHANGED <<oMaxAge, outsideIndex>>

\* Variant of ParseContext: the upper limit of the context is not checked.
ParseContextNoUpperLimit(context) ==
    /\ ipc = "context"
    /\ IF Len(context) > 0
         THEN LET r == Atoi(context) IN
                IF r.err # Nil \/ r.num < -1
                  THEN Reject("?context must be a number between -1 and 15")
                       /\ UNCHANGED index
                  ELSE /\ index' = [index EXCEPT !.Context = r.num]
                       /\ ipc' = "contextOptions"
                       /\ UNCHANGED out
         ELSE ipc' = "contextOptions" /\ UNCHANGED <<index, out>>
    /\ lastParam' = [name |-> "context", value |-> context]
    /\ UNCHANGED <<oMaxAge, contextOptions, maxAgeOptions, outsideIndex>>

\* Lines 56-63: the context parameter.
ParseContext(context) ==
    /\ ipc = "context"
    /\ IF Len(context) > 0
         THEN LET r == Atoi(context) IN
                IF r.err # Nil \/ r.num < -1 \/ r.num > 15
                  THEN Reject("?context must be a number between -1 and 15")
                       /\ UNCHANGED index
                  ELSE /\ index' = [index EXCEPT !.Context = r.num]
                       /\ ipc' = "contextOptions"
                       /\ UNCHANGED out
         ELSE ipc' = "contextOptions" /\ UNCHANGED <<index, out>>
    /\ lastParam' = [name |-> "context", value |-> context]
    /\ UNCHANGED <<oMaxAge, contextOptions, maxAgeOptions, outsideIndex>>

\* intSelected, lines 170-175, and durationSelected, lines 177-182.
intSelected(current, expected) == IF current = expected THEN "selected" ELSE ""
durationSelected(current, expected) == IF current = expected THEN "selected" ELSE ""

\* <option value="v" sel>
Option(v, sel) == [value |-> v, selected |-> sel]

\* Lines 64-80: the options of the context dropdown.
BuildContextOptions ==
    /\ ipc = "contextOptions"
    /\ LET fixed == <<Option(<<"-", "1">>, intSelected(1, index.Context)),
                      Option(<<"0">>, intSelected(0, index.Context)),
                      Option(<<"1">>, intSelected(1, index.Context)),
                      Option(<<"2">>, intSelected(2, index.Context)),
                      Option(<<"3">>, intSelected(3, index.Context)),
                      Option(<<"5">>, intSelected(5, index.Context)),
                      Option(<<"7">>, intSelected(7, index.Context)),
                      Option(<<"1", "0">>, intSelected(10, index.Context)),
                      Option(<<"1", "5">>, intSelected(15, index.Context))>>
       IN contextOptions' =
              IF index.Context \in {-1, 0, 1, 2, 3, 5, 7, 10, 15}
                THEN fixed
                ELSE Append(fixed, Option(Itoa(index.Context), "selected"))
    /\ ipc' = "type"
    /\ lastParam' = NoParam
    /\ UNCHANGED <<oMaxAge, index, maxAgeOptions, out, outsideIndex>>

\* Lines 82-92: the type parameter.
ParseType(type) ==
    /\ ipc = "type"
    /\ IF type \in {"junit", "build-log"}
         THEN index' = [index EXCEPT !.SearchType = type] /\ ipc' = "maxAge" /\ UNCHANGED out
         ELSE IF type \in {"all", ""}
                THEN index' = [index EXCEPT !.SearchType = "all"] /\ ipc' = "maxAge"
                     /\ UNCHANGED out
                ELSE Reject("?search must be 'junit', 'build-log', or 'all'")
                     /\ UNCHANGED index
    /\ lastParam' = [name |-> "type", value |-> type]
    /\ UNCHANGED <<oMaxAge, contextOptions, maxAgeOptions, outsideIndex>>

\* Lines 102-109: the maxAge parameter.
ParseMaxAge(value) ==
    /\ ipc = "maxAge"
    /\ IF Len(value) > 0
         THEN LET r == ParseDuration(value) IN
                IF r.err # Nil \/ r.d < 0
                  THEN Reject("?maxAge must be a non-negative duration")
                       /\ UNCHANGED index
                  ELSE /\ index' = [index EXCEPT !.MaxAge = r.d]
                       /\ ipc' = "cap"
                       /\ UNCHANGED out
         ELSE ipc' = "cap" /\ UNCHANGED <<index, out>>
    /\ lastParam' = [name |-> "maxAge", value |-> value]
    /\ UNCHANGED <<oMaxAge, contextOptions, maxAgeOptions, outsideIndex>>

\* Lines 110-112: the operator's maximum.
CapMaxAge ==
    /\ ipc = "cap"
    /\ index' = IF oMaxAge > 0 /\ oMaxAge < index.MaxAge
                  THEN [index EXCEPT !.MaxAge = oMaxAge]
                  ELSE index
    /\ ipc' = "maxAgeOptions"
    /\ lastParam' = NoParam
    /\ UNCHANGED <<oMaxAge, contextOptions, maxAgeOptions, out, outsideIndex>>

\* Lines 113-128: the options of the maximum age dropdown; 0 is "No limit".
BuildMaxAgeOptions ==
    /\ ipc = "maxAgeOptions"
    /\ LET fixed == <<Option(6, durationSelected(6, index.MaxAge)),
                      Option(12, durationSelected(12, index.MaxAge)),
                      Option(24, durationSelected(24, index.MaxAge)),
                      Option(48, durationSelected(48, index.MaxAge)),
                      Option(168, durationSelected(168, index.MaxAge)),
                      Option(336, durationSelected(336, index.MaxAge))>>
       IN maxAgeOptions' =
              IF index.MaxAge \in {6, 12, 24, 48, 168, 336}
                THEN fixed
                ELSE Append(fixed, Option(index.MaxAge, "selected"))
    /\ ipc' = "page"
    /\ lastParam' = NoParam
    /\ UNCHANGED <<oMaxAge, index, contextOptions, out, outsideIndex>>

\* Lines 130-131: the start of the page and the form with its dropdowns.
WritePage ==
    /\ ipc = "page"
    /\ out' = [out EXCEPT !.status = 200, !.page = TRUE]
    /\ ipc' = "results"
    /\ lastParam' = NoParam
    /\ UNCHANGED <<oMaxAge, index, contextOptions, maxAgeOptions, outsideIndex>>

\* Lines 133-153: the empty results page, or the search.
RenderResults ==
    /\ ipc = "results"
    /\ out' = [out EXCEPT !.rendered = IF index.Search = "" THEN "empty"
                                       ELSE IF index.Context >= 0 THEN "renderWithContext"
                                       ELSE "renderSummary"]
    /\ ipc' = "done"
    /\ lastParam' = NoParam
    /\ UNCHANGED <<oMaxAge, index, contextOptions, maxAgeOptions, outsideIndex>>

\* The server starts with the maximum age the operator configured.
IndexInit ==
    /\ SessionInit /\ WatchIdle /\ CacheIdle
    /\ oMaxAge \in OperatorMaxAges
    /\ HandlerIdle

\* The handler parses the context, type or maxAge value of the request's form.
ReadContext == ipc = "context" /\ \E context \in ContextValues : ParseContext(context)
ReadType == ipc = "type" /\ \E type \in TypeValues : ParseType(type)
ReadMaxAge == ipc = "maxAge" /\ \E value \in MaxAgeValues : ParseMaxAge(value)

IndexNext ==
    \/ \E formOk \in BOOLEAN, search \in SearchValues : HandleStart(formOk, search)
    \/ ReadContext
    \/ BuildContextOptions
    \/ ReadType
    \/ ReadMaxAge
    \/ CapMaxAge
    \/ BuildMaxAgeOptions
    \/ WritePage
    \/ RenderResults

IndexSpec == IndexInit /\ [][IndexNext]_vars

\* The handler performed the search.
Searched == out.rendered \in {"renderWithContext", "renderSummary"}

\* The request was refused: an error response, no page, no search.
Rejected == ipc = "done" /\ out.status = 500 /\ ~out.page /\ out.rendered = "none"

\* C17: when the operator's maximum age is positive, the maximum age a search is
\* made with is a limit (not 0, which is no limit) and is at most the operator's
\* maximum, whatever accepted maxAge parameter the request had.
C17_OperatorMaxAgeRespected ==
    (Searched /\ oMaxAge > 0) => (index.MaxAge # 0 /\ index.MaxAge <= oMaxAge)

\* n zeros
Zeros(n) == [i \in 1..n |-> "0"]

\* s is a numeral of an integer of -1..15: an optional sign, optional leading
\* zeros, and the decimal digits of the magnitude.
DenotesContext(s) ==
    \E n \in 0..15, k \in 0..Len(s), sign \in {<<>>, <<"+">>, <<"-">>} :
        /\ s = sign \o Zeros(k) \o FormatUint(n)
        /\ sign = <<"-">> => n <= 1

\* s is a duration that is not negative: an optional sign, then "0" or groups of
\* digits and the unit "h"; with the sign "-", every digit is 0.
DenotesNonNegativeDuration(s) ==
    LET signed == s # <<>> /\ s[1] \in {"+", "-"}
        body == IF signed THEN Tail(s) ELSE s
    IN \/ body = <<"0">>
       \/ /\ body # <<>>
          /\ \A i \in 1..Len(body) : body[i] \in Digits \cup {"h"}
          /\ body[1] \in Digits
          /\ body[Len(body)] = "h"
          /\ \A i \in 2..Len(body) : body[i] = "h" => body[i - 1] \in Digits
          /\ (signed /\ s[1] = "-") => \A i \in 1..Len(body) : body[i] \in {"0", "h"}

\* C18: a request with a context parameter that is not an integer of -1..15,
\* with a type parameter other than junit, build-log, all and the empty one, or
\* with a maxAge parameter that is not a non-negative duration is answered with
\* an error, no page and no search; an accepted request with a search is
\* rendered by renderSummary exactly when its context is -1 and by
\* renderWithContext otherwise. A parameter the form lacks has the value "".
C18_BadParametersRejected ==
    /\ (/\ lastParam.name = "context"
        /\ lastParam.value # <<>>
        /\ ~DenotesContext(lastParam.value)) => Rejected
    /\ (/\ lastParam.name = "type"
        /\ lastParam.value \notin {"junit", "build-log", "all", ""}) => Rejected
    /\ (/\ lastParam.name = "maxAge"
        /\ lastParam.value # <<>>
        /\ ~DenotesNonNegativeDuration(lastParam.value)) => Rejected
    /\ out.status = 500 => (~out.page /\ out.rendered = "none")
    /\ (ipc = "done" /\ out.status = 200 /\ index.Search # "") =>
           /\ index.Context \in -1..15
           /\ index.SearchType \in {"junit", "build-log", "all"}
           /\ index.MaxAge >= 0
           /\ out.rendered = "renderSummary" <=> index.Context = -1
           /\ out.rendered = "renderWithContext" <=> index.Context # -1

\* A request with a search and the context -1 that is refused for its maxAge.
C18_Witness ==
    /\ Rejected
    /\ out.error = "?maxAge must be a non-negative duration"
    /\ lastParam = [name |-> "maxAge", value |-> <<"-", "6", "h">>]
    /\ index.Search = "timeout"
    /\ index.Context = -1

\* The positions of the options of a dropdown that are marked selected.
SelectedOptions(options) == {i \in DOMAIN options : options[i].selected = "selected"}

\* C19: the context dropdown of a page has exactly one option marked selected,
\* and the value of that option is the context of the request.
C19_OneContextOptionSelected ==
    out.page =>
        /\ index.Context \in -1..15
        /\ Cardinality(SelectedOptions(contextOptions)) = 1
        /\ \A i \in SelectedOptions(contextOptions) :
               contextOptions[i].value = Itoa(index.Context)

====
